---- MODULE Spec2Model ----
(***************************************************************************)
(* A model of the reactive core of fntags (src/src/fntags.mjs): the state  *)
(* container created by fnstate, its observer registry, its selection      *)
(* channel and the keyed reconciliation that bindChildren attaches.        *)
(*                                                                         *)
(* JavaScript runs these handlers to completion on one thread, so every    *)
(* public call is one action.  A call that re-enters the container (the    *)
(* DuplicateKey rollback calls ctx.state again from inside an observer) is *)
(* computed by mutually recursive operators over a record M that holds the *)
(* mutable fields of ctx and of the bind context, exactly in the order the *)
(* code touches them.                                                      *)
(***************************************************************************)
EXTENDS Integers, Sequences, FiniteSets, TLC

(***************************************************************************)
(* Bounds of the model.                                                    *)
(***************************************************************************)
\* scalar values handed to set() in the observer specification
NVals == 2
\* subscriptions a run of the observer specification creates (caps ctx.nextId)
MaxSubs == 3
\* keys 1..NKeys of the items of the bound collection
NKeys == 3
\* items in a collection handed to bindChildren / set()
MaxLen == 3
\* primitive item values and collection length of the item-set specification
ItemPrims == 2
ItemLen == 2
\* keys, collection length and selection callbacks of the selection
\* specification
SelKeys == 3
SelLen == 3
MaxSelObs == 3
\* keys, collection length and selection callbacks of the specification of
\* the empty collection
ClearKeys == 2
ClearLen == 2
ClearObs == 2
\* object items and collection length of the specification without keyFn
IndexObjs == 2
IndexLen == 3
\* the same, of the selection specification with set()
PurgeKeys == 3
PurgeLen == 2
PurgeObs == 2
\* keys, collection length, selection callbacks and subscriptions of the
\* specification of reset()
ResetKeys == 1
ResetLen == 1
ResetObs == 1
ResetSubs == 1
\* keys, collection length, selection callbacks and bound attributes of
\* the specification of the binder arguments
ArgsKeys == 2
ArgsLen == 1
ArgsObs == 1
ArgsBound == 1
\* bound attributes, units, attribute names and subscriptions of the
\* specification of the bound attributes
AttrBound == 1
AttrUnits == 1
AttrNames == 1
AttrSubs == 2
\* keys, collection length and subscriptions of the specification of the
\* observers of a bound collection
DupKeys == 1
DupLen == 2
DupSubs == 3
\* keys, collection length, subscriptions and selection callbacks of the
\* specification of the item containers
OwnKeys == 2
OwnLen == 2
OwnSubs == 2
OwnObs == 1
\* keys, collection length and subscriptions of the specification of set()
\* on an item
KeepKeys == 2
KeepLen == 2
KeepSubs == 2
\* segments of a property path; fields and objects below the root of an
\* object value; primitive field values; subscriptions of the path
\* specification
MaxSegs == 3
MaxNodes == 2
PathVals == 1
PathSubs == 1

(***************************************************************************)
(* Values.  A container value is an array of items or a scalar.  An item   *)
(* is a primitive (typeof !== 'object') or an object with an id field.     *)
(***************************************************************************)
\* linked: the items carry parentCtx (a placement pass has run over them)
\* tree: the fields of a plain object, NoTree for what is not one
NoTree == <<>>
Arr(items) ==
  [arr |-> TRUE, items |-> items, s |-> 0, linked |-> FALSE, tree |-> NoTree]
Scalar(n) ==
  [arr |-> FALSE, items |-> <<>>, s |-> n, linked |-> FALSE, tree |-> NoTree]
Prim(n) == [obj |-> FALSE, v |-> n]
Obj(n) == [obj |-> TRUE, v |-> n]

\* JS undefined, where a key or a selection is expected
Undef == -1

\* a test of oldState that never finds a value to roll back to
NeverTruthy(v) == FALSE
\* if (oldState): arrays and objects are truthy, also the empty ones; 0 is
\* falsy
Truthy(v) == v.arr \/ v.tree # NoTree \/ v.s # 0

SeqsUpTo(S, n) == UNION {[1..k -> S] : k \in 0..n}

\* the ids of the object items {id: n} the collections may hold
ObjIds == {1}
ItemValues(np) == {Prim(n) : n \in 1..np} \cup {Obj(n) : n \in ObjIds}
\* one item value for each key of 1..n: objects for the keys of ObjIds,
\* primitives for the others
KeyedItems(n) == {IF k \in ObjIds THEN Obj(k) ELSE Prim(k) : k \in 1..n}

(***************************************************************************)
(* Object values.  The fields of a plain object are a tree: a function     *)
(* from the places below the root, each a sequence of field names, to what *)
(* is there, an object or a primitive; the root is the place <<>>.  A      *)
(* field name is a sequence of characters.  The objects the model builds   *)
(* are fresh literals, so a tree is shared by nothing but the container    *)
(* and, where initialValue says so, the closure of fnstate.                *)
(***************************************************************************)
Leaf(n) == [obj |-> FALSE, n |-> n]
Node == [obj |-> TRUE, n |-> 0]
\* {}
EmptyTree == [p \in {<<>>} |-> Node]
Object(tree) ==
  [arr |-> FALSE, items |-> <<>>, s |-> 0, linked |-> FALSE, tree |-> tree]
EmptyObject == Object(EmptyTree)
\* JS undefined, as a value
UndefVal == Scalar(Undef)

\* typeof v === 'object'
typeofObject(v) == v.arr \/ v.tree # NoTree

IsPrefix(p, q) == Len(p) <= Len(q) /\ SubSeq(q, 1, Len(p)) = p
Below(q, n) == SubSeq(q, n + 1, Len(q))
\* the value as a tree: a primitive is a root that is a leaf; the indices
\* of an array are not fields of the model
TreeOf(v) ==
  IF v.tree # NoTree THEN v.tree
  ELSE IF v.arr THEN EmptyTree ELSE [p \in {<<>>} |-> Leaf(v.s)]
\* the value that is the tree: of the kind of v where the root is no object
FromTree(tree, v) == IF tree[<<>>].obj /\ ~v.arr THEN [v EXCEPT !.tree = tree] ELSE v
\* the object or the primitive at a place of the tree
Sub(tree, at) ==
  [p \in {Below(q, Len(at)) : q \in {r \in DOMAIN tree : IsPrefix(at, r)}} |->
     tree[at \o p]]
ValueAt(tree, at) ==
  IF tree[at].obj THEN Object(Sub(tree, at)) ELSE Scalar(tree[at].n)
\* parent[name] = val: what was at the place is replaced by val
Graft(tree, at, val) ==
  LET kept == {q \in DOMAIN tree : ~IsPrefix(at, q)}
      sub == TreeOf(val)
  IN [q \in kept \cup {at \o p : p \in DOMAIN sub} |->
        IF q \in kept THEN tree[q] ELSE sub[Below(q, Len(at))]]
\* Object.assign(target, update): the own fields of update, copied shallowly
ObjectAssign(tree, update) ==
  LET keys == {q[1] : q \in {r \in DOMAIN update : Len(r) = 1}}
      kept == {q \in DOMAIN tree : Len(q) = 0 \/ q[1] \notin keys}
  IN [q \in kept \cup (DOMAIN update \ {<<>>}) |->
        IF q \in kept THEN tree[q] ELSE update[q]]

\* a path argument: a string, as its characters, or something else
Str(chars) == [str |-> TRUE, chars |-> chars]
Letters == {"a", "b"}
\* the field names of the model: the empty name and the one-letter names
PathNames == {<<>>} \cup {<<c>> : c \in Letters}
RECURSIVE Join(_)
\* segs.join('.')
Join(segs) ==
  IF Len(segs) = 1 THEN segs[1] ELSE segs[1] \o <<".">> \o Join(Tail(segs))
RECURSIVE split(_)
\* path.split('.'): the empty string splits into one empty segment
split(chars) ==
  IF \E i \in 1..Len(chars) : chars[i] = "."
  THEN LET i == CHOOSE j \in 1..Len(chars) :
                  chars[j] = "." /\ \A k \in 1..(j - 1) : chars[k] # "."
       IN <<SubSeq(chars, 1, i - 1)>> \o split(SubSeq(chars, i + 1, Len(chars)))
  ELSE <<chars>>

\* (curr, part) => part in curr ? curr[part] : undefined; the in operator
\* throws on undefined and on a primitive
GetStep(tree, curr, part) ==
  IF curr.err # "none" THEN curr
  ELSE IF ~curr.def \/ ~tree[curr.at].obj THEN [curr EXCEPT !.err = "TypeError"]
  ELSE IF curr.at \o <<part>> \in DOMAIN tree
       THEN [curr EXCEPT !.at = @ \o <<part>>]
       ELSE [curr EXCEPT !.def = FALSE]
RECURSIVE GetReduce(_, _, _, _)
GetReduce(tree, segs, i, curr) ==
  IF i > Len(segs) THEN curr
  ELSE GetReduce(tree, segs, i + 1, GetStep(tree, curr, segs[i]))
\* line 257: typeof path !== 'string'
InvalidPath(path) == ~path.str
\* ctx.state.getPath(path): the error it throws and what it returns
getPath(v, path) ==
  IF InvalidPath(path) THEN [err |-> "InvalidPath", ret |-> UndefVal]
  ELSE IF ~typeofObject(v) THEN [err |-> "NotAnObject", ret |-> UndefVal]
  ELSE LET tree == TreeOf(v)
           c == GetReduce(tree, split(path.chars), 1,
                          [def |-> TRUE, at |-> <<>>, err |-> "none"])
       IN IF c.err # "none" THEN [err |-> c.err, ret |-> UndefVal]
          ELSE [err |-> "none",
                ret |-> IF c.def THEN ValueAt(tree, c.at) ELSE UndefVal]

\* line 286: fillWithObjects && typeof current[part] !== 'object'
Fills(fill, tree, child) ==
  fill /\ (child \notin DOMAIN tree \/ ~tree[child].obj)
\* lines 285-290, on w = the tree and where the reduction is in it; reading
\* current[part] throws when current is undefined, and so does, in a
\* module, the assignment to a field of a primitive
SetStep(w, part, fill) ==
  IF w.err # "none" THEN w
  ELSE IF ~w.def THEN [w EXCEPT !.err = "TypeError"]
  ELSE IF ~w.tree[w.at].obj
       THEN IF fill THEN [w EXCEPT !.err = "TypeError"] ELSE [w EXCEPT !.def = FALSE]
  ELSE LET child == w.at \o <<part>>
       IN IF Fills(fill, w.tree, child)
          THEN [w EXCEPT !.tree = Graft(@, child, EmptyObject), !.at = child]
          ELSE IF child \in DOMAIN w.tree
               THEN [w EXCEPT !.at = child]
               ELSE [w EXCEPT !.def = FALSE]
RECURSIVE SetReduce(_, _, _, _)
SetReduce(w, segs, i, fill) ==
  IF i > Len(segs) THEN w
  ELSE SetReduce(SetStep(w, segs[i], fill), segs, i + 1, fill)
\* s.slice(0, -1)
Front(s) == SubSeq(s, 1, Len(s) - 1)
\* a key that is the first segment of the path
FirstOf(s) == s[1]
\* s.slice(-1)
Last(s) == s[Len(s)]

VARIABLES
  currentValue,   \* ctx.currentValue
  observers,      \* ctx.observers: sequence of [id, kind]
  nextId,         \* ctx.nextId
  tokens,         \* unsubscribe tokens: id -> "armed" | "spent" (list = null)
                  \* | "stale" (list is an array reset() has dropped)
  mapKey,         \* ctx.mapKey: "fn" (item => item.id), "absent", "index"
  selected,       \* ctx.selected
  selectObservers,\* ctx.selectObservers: key -> sequence of callback ids
  nextCb,         \* identities of the selection callbacks created so far
  bindContexts,   \* number of bind contexts pushed on ctx.bindContexts
  bindResult,     \* how the bindChildren call ended: "unbound" before it
  boundElementByKey, \* bindContext.boundElementByKey: key -> unit
  children,       \* bindContext.parent's child nodes, first to last
  textKeys,       \* the keys whose item renderFn renders as a text node
  elCtx,          \* the bindAs binding of the container: its mode, the unit
                  \* it holds (elCtx.current / boundElement) and, of the
                  \* latest set(), the renderFn calls and the units updateFn
                  \* was called with
  initialValue,   \* the initialValue fnstate closes over: its contents now
                  \* (v), whether ctx.currentValue is the same object, and
                  \* its contents when fnstate was called (made)
  lastReset,      \* ctx.nextId and the callback count at the latest reset()
  parentNode,     \* what bindContext.parent is: "none" before bindChildren
  boundAttrs,     \* the bound attributes and styles created so far
  attached,       \* observer id -> the unit and name a bound attribute or
                  \* style was attached to, and what it applied there
  owners,         \* selection callback -> the place, in the collection, of
                  \* the item whose container it was bound on; 0 once
                  \* that container has left the collection
  bindContext,    \* the element and update arguments the bind context holds
  call,           \* the latest public call: [op, val, key, result, ret]
  log,            \* observer invocations of the latest call, in order
  selLog          \* selection callbacks invoked by the latest call, in order

vars == <<currentValue, observers, nextId, tokens, mapKey, selected,
          selectObservers, nextCb, bindContexts, bindResult, boundElementByKey,
          children,
          textKeys, elCtx, initialValue, lastReset, parentNode, boundAttrs,
          attached, owners, bindContext, call, log, selLog>>

NoVal == Scalar(0)
\* dup: the argument of set() is a collection with two items of one key;
\* same: the argument of set() is the value the container held;
\* scalar: the argument of set() is not an array (val holds it then)
\* path, flag: the path argument of getPath and setPath; fillWithObjects
\* of setPath, reInit of reset; args: what the arguments of a binder are;
\* updated: the units the update function of the bind context was called with
NoPath == [str |-> FALSE, chars |-> <<>>]
Call(op, val, key, result, ret) ==
  [op |-> op, val |-> val, key |-> key, result |-> result, ret |-> ret,
   dup |-> FALSE, same |-> FALSE, scalar |-> FALSE, path |-> NoPath,
   flag |-> FALSE, args |-> <<>>, updated |-> <<>>]

(***************************************************************************)
(* The node abstraction: a parent's children are a sequence of units.  A   *)
(* unit is [key, id, text]: its key tag, which node it is among the nodes  *)
(* ever tagged with that key, and whether it is a text node (text nodes    *)
(* have no insertAdjacentElement).                                         *)
(***************************************************************************)
EmptyMap == <<>>
\* body(x) with x evaluated once (TLC evaluates LET definitions by need)
Then(x, body(_)) == CHOOSE r \in {body(v) : v \in {x}} : TRUE
Put(f, k, v) == [x \in DOMAIN f \cup {k} |-> IF x = k THEN v ELSE f[x]]
Delete(f, k) == [x \in DOMAIN f \ {k} |-> f[x]]

SameNode(u, w) == u.key = w.key /\ u.id = w.id
RECURSIVE Find(_, _, _)
Find(dom, u, i) ==
  IF i > Len(dom) THEN 0 ELSE IF SameNode(dom[i], u) THEN i ELSE Find(dom, u, i + 1)
\* the place of node u among the children, 0 when it is not a child
IndexOf(dom, u) == Find(dom, u, 1)
RemoveAt(s, i) == SubSeq(s, 1, i - 1) \o SubSeq(s, i + 1, Len(s))
\* a node that is inserted somewhere first leaves the place it is at
Detach(dom, u) == Then(IndexOf(dom, u), LAMBDA i : IF i = 0 THEN dom ELSE RemoveAt(dom, i))
\* parent.append(u)
append(dom, u) == Detach(dom, u) \o <<u>>
InsertAt(d, u, p) == SubSeq(d, 1, p - 1) \o <<u>> \o SubSeq(d, p, Len(d))
\* an insertion on the wrong side of ref ('afterEnd')
insertAfter(dom, u, ref) ==
  Then(Detach(dom, u), LAMBDA d : InsertAt(d, u, IndexOf(d, ref) + 1))
\* parent.insertBefore(u, ref) and ref.insertAdjacentElement('beforeBegin', u)
insertBefore(dom, u, ref) ==
  Then(Detach(dom, u), LAMBDA d : InsertAt(d, u, IndexOf(d, ref)))
\* old.replaceWith(new): nothing when old has no parent
replaceWith(dom, old, new) ==
  IF IndexOf(dom, old) = 0 THEN dom
  ELSE Then(Detach(dom, new), LAMBDA d : [d EXCEPT ![IndexOf(d, old)] = new])
\* node.remove()
remove(dom, u) == Detach(dom, u)

\* a node created by renderFn is none of the nodes the call has seen so far
RECURSIVE FirstFree(_, _, _)
FirstFree(used, key, n) ==
  IF <<key, n>> \notin used THEN n ELSE FirstFree(used, key, n + 1)
FreshId(used, key) == FirstFree(used, key, 0)

KeysOfDom(dom) == [i \in 1..Len(dom) |-> dom[i].key]
NodesOf(dom, bound) ==
  {<<dom[i].key, dom[i].id>> : i \in 1..Len(dom)}
    \cup {<<bound[k].key, bound[k].id>> : k \in DOMAIN bound}

(***************************************************************************)
(* The machine a call runs on: the fields of ctx and of the bind context   *)
(* the call reads and writes, and what the call has done so far: the       *)
(* observers it invoked (log), the keys it called renderFn for (renders),  *)
(* the structural operations it issued on the parent (ops), the nodes it   *)
(* has seen (used) and the error it raised (err).                          *)
(***************************************************************************)
NoUnit == [key |-> Undef, id |-> 0, text |-> FALSE]
\* a container bindAs has not been called on
NoBinding == [mode |-> "none", current |-> NoUnit, rendered |-> 0, updated |-> <<>>]

Machine ==
  [value |-> currentValue, observers |-> observers, tokens |-> tokens,
   mapKey |-> mapKey, elCtx |-> [elCtx EXCEPT !.updated = <<>>],
   selObs |-> selectObservers, bound |-> boundElementByKey, dom |-> children,
   parent |-> parentNode,
   attached |-> [id \in DOMAIN attached |-> [attached[id] EXCEPT !.applied = 0]],
   log |-> <<>>, renders |-> <<>>, ops |-> 0, updated |-> <<>>,
   used |-> NodesOf(children, boundElementByKey), err |-> "none"]

\* keyMapper(mapKey, value)
keyMapper(mk, item) ==
  IF ~item.obj THEN item.v
  ELSE IF mk = "absent" THEN 0
  ELSE IF mk = "index" THEN Undef   \* (o, i) => i called with one argument
  ELSE item.v                       \* a keyFn that reads the item's id

KeysArr(mk, items) == [i \in 1..Len(items) |-> keyMapper(mk, items[i])]
\* the loop over ctx.currentValue meets a key it has already put in keys
HasDuplicate(ks) == \E i, j \in 1..Len(ks) : i < j /\ ks[i] = ks[j]
KeySet(ks) == {ks[i] : i \in 1..Len(ks)}

RECURSIVE state(_, _, _), RunObservers(_, _, _, _, _), place(_, _, _, _, _)
RECURSIVE RunObserversUntilSet(_, _, _, _, _), coerce(_, _)

\* a pass that renders every item, whether the map holds its unit or not
AlwaysRender(bound, key) == TRUE
\* line 548: current === undefined
NeedsRender(bound, key) == key \notin DOMAIN bound
\* a pass that appends the last item without looking at parent.lastChild
NeverLastChild(dom, current) == FALSE
\* line 555: the parent's last child carries the key already
IsLastChild(dom, current) == Len(dom) > 0 /\ dom[Len(dom)].key = current.key
\* line 568: keys[prev.previousSibling.key] === undefined
IsStale(ks, sib) == sib.key \notin KeySet(ks)
\* line 570: the selection observers of a stale sibling are deleted
PurgesSelect(selObs, sib, current) == sib.key \in DOMAIN selObs /\ ~current.text

\* lines 548-552: renderNode(evaluateElement(bindContext.element, valueState))
Render(M, key) ==
  Then([key |-> key, id |-> FreshId(M.used, key), text |-> key \in textKeys],
       LAMBDA u : [M EXCEPT !.bound = Put(@, key, u),
                            !.renders = Append(@, key),
                            !.used = @ \cup {<<key, u.id>>}])

\* lines 554-586: place the element in the parent
Position(M, ks, current, isNew, prev, hasPrev) ==
  IF ~hasPrev
  THEN IF ~IsLastChild(M.dom, current)
       THEN [M EXCEPT !.dom = append(@, current), !.ops = @ + 1]
       ELSE M
  ELSE Then(IndexOf(M.dom, prev), LAMBDA p :
         IF p = 1
         THEN [M EXCEPT !.dom = insertBefore(@, current, prev), !.ops = @ + 1]
         ELSE Then(M.dom[p - 1], LAMBDA sib :
                IF sib.key # current.key
                THEN IF IsStale(ks, sib)
                     THEN [M EXCEPT
                             !.bound = Delete(@, sib.key),
                             !.selObs = IF PurgesSelect(@, sib, current)
                                        THEN Delete(@, sib.key) ELSE @,
                             !.dom = replaceWith(@, sib, current),
                             !.ops = @ + 1]
                     ELSE IF isNew
                          THEN [M EXCEPT !.dom = insertBefore(@, current, prev),
                                         !.ops = @ + 1]
                          ELSE [M EXCEPT !.dom = replaceWith(@, sib, current),
                                         !.ops = @ + 1]
                ELSE M))

\* one turn of the loop: the unit of ks[i]; prev is the unit placed to its right
PlaceOne(M, ks, i, prev, hasPrev) ==
  IF NeedsRender(M.bound, ks[i])
  THEN Then(Render(M, ks[i]),
            LAMBDA N : Position(N, ks, N.bound[ks[i]], TRUE, prev, hasPrev))
  ELSE Position(M, ks, M.bound[ks[i]], FALSE, prev, hasPrev)

CurrentOf(M, ks, i) == M.bound[ks[i]]

\* for (let i = ctx.currentValue.length - 1; i >= 0; i--)
place(M, ks, i, prev, hasPrev) ==
  IF i = 0 THEN M
  ELSE Then(PlaceOne(M, ks, i, prev, hasPrev),
            LAMBDA N : place(N, ks, i - 1, CurrentOf(N, ks, i), TRUE))

RECURSIVE strays(_, _, _)
\* catch any strays: for (const key in bindContext.boundElementByKey)
strays(M, ks, todo) ==
  IF todo = {} THEN M
  ELSE LET key == CHOOSE k \in todo : \A m \in todo : k <= m
       IN Then(IF key \notin KeySet(ks)
               THEN [M EXCEPT !.dom = remove(@, M.bound[key]),
                              !.bound = Delete(@, key),
                              !.selObs = IF key \in DOMAIN @ THEN Delete(@, key) ELSE @,
                              !.ops = @ + 1]
               ELSE M,
               LAMBDA N : strays(N, ks, todo \ {key}))

\* an empty collection that only empties the parent
clearParentOnly(M) ==
  [M EXCEPT !.dom = <<>>, !.ops = @ + (IF Len(M.dom) > 0 THEN 1 ELSE 0)]
\* lines 513-518: the collection is empty
clear(M) ==
  [M EXCEPT !.dom = <<>>, !.bound = EmptyMap, !.selObs = EmptyMap,
            !.ops = @ + (IF Len(M.dom) > 0 THEN 1 ELSE 0)]

\* a rollback that puts the old value back and notifies nobody
restoreValueOnly(M, oldState) == [M EXCEPT !.value = oldState]
\* line 529: ctx.state(oldState), a set() like any other: a round over all
\* the observers, with the old value as the new one
restore(M, oldState) == state(M, oldState, TRUE)

\* arrangeElements(ctx, bindContext, oldState); rollback: this pass runs
\* inside the ctx.state(oldState) of an enclosing pass
arrangeElements(M, oldState, hasOld, rollback) ==
  LET items == M.value.items
      ks == KeysArr(M.mapKey, items)
  IN IF Len(items) = 0
     THEN clear(M)
     ELSE IF HasDuplicate(ks)
     THEN IF hasOld /\ Truthy(oldState)
          THEN IF rollback
               \* the value rolled back to has duplicate keys too: each pass
               \* calls ctx.state with the other value, without end
               THEN [M EXCEPT !.err = "RangeError"]
               ELSE Then(restore(M, oldState),
                         LAMBDA N : IF N.err # "none" THEN N
                                    ELSE [N EXCEPT !.err = "DuplicateKey"])
          ELSE [M EXCEPT !.err = "DuplicateKey"]
     ELSE IF M.parent = "text"
     \* the parent is a text node: the first turn of the loop renders the
     \* last item where the map has no unit for it, and parent.append at
     \* line 556 is not a function
     THEN [(IF NeedsRender(M.bound, ks[Len(ks)]) THEN Render(M, ks[Len(ks)]) ELSE M)
             EXCEPT !.err = "TypeError"]
     ELSE Then(place(M, ks, Len(ks), NoUnit, FALSE),
               LAMBDA P : [strays(P, ks, DOMAIN P.bound) EXCEPT !.value.linked = TRUE])

\* reconcile(ctx, oldState), for the one bind context of the model
reconcile(M, oldState, hasOld, rollback) ==
  arrangeElements(M, oldState, hasOld, rollback)

\* list.findIndex(l => l.id === id), 1-based; 0 for JS -1
findIndex(list, id) ==
  IF \E i \in 1..Len(list) : list[i].id = id
  THEN CHOOSE i \in 1..Len(list) : list[i].id = id /\ \A j \in 1..(i - 1) : list[j].id # id
  ELSE 0
\* a splice that ignores the index it is given and drops the last element
spliceLast(list, i) == SubSeq(list, 1, Len(list) - 1)
\* list.splice(index, 1); splice(-1, 1) removes the last element
splice(list, i) ==
  IF Len(list) = 0 THEN list
  ELSE IF i = 0 THEN SubSeq(list, 1, Len(list) - 1)
  ELSE RemoveAt(list, i)

\* the function doSubscribe returns, called from inside an observer
CallToken(M, id) ==
  IF M.tokens[id] = "spent"
  THEN [M EXCEPT !.err = "TypeError"]   \* list is null: list.splice throws
  ELSE IF M.tokens[id] = "stale"
  THEN [M EXCEPT !.tokens[id] = "spent"] \* list is the array reset() dropped
  ELSE [M EXCEPT !.observers = splice(@, findIndex(@, id)),
                 !.tokens[id] = "spent"]

\* updateReplacer(ctx, element, elCtx)(): the observer of bindAs without an
\* update function
updateReplacer(M) ==
  Then([key |-> Undef, id |-> FreshId(M.used, Undef), text |-> FALSE],
       LAMBDA rendered :
         Then([M EXCEPT !.renders = Append(@, rendered.key),
                        !.used = @ \cup {<<rendered.key, rendered.id>>}],
              LAMBDA R :
                IF R.elCtx.current.key # Undef
                \* rendered.current is undefined: the assignment of
                \* rendered.current.key throws
                THEN [R EXCEPT !.err = "TypeError"]
                \* ctx.parentCtx is undefined (parentCtx is a field of
                \* ctx.state): no live-units map is written; the executor of
                \* new Promise runs at once
                ELSE [R EXCEPT !.dom = replaceWith(@, R.elCtx.current, rendered),
                               !.elCtx.current = rendered]))

\* an update branch wired to the replacing observer
updaterReplacing(M) == updateReplacer(M)
\* () => update(boundElement): the observer of bindAs with an update function
updater(M) == [M EXCEPT !.elCtx.updated = Append(@, M.elCtx.current)]

\* the value the "setter" callbacks set: n => { if (n !== w) state(w) }
SetterValue == Scalar(0)

\* an observer that warns about the value that is not an array, and no more
coerceWarnOnly(M, rollback) == M
\* lines 408-419: new Promise(executor) runs the executor, and in it
\* ctx.state([ctx.currentValue]), at once; what the executor throws rejects
\* the promise and does not reach the caller
coerce(M, rollback) ==
  [state(M, Arr(<<Prim(M.value.s)>>), rollback) EXCEPT !.err = "none"]

\* an observer of a bound attribute or style that applies nothing
applyNothing(M, id) == M
\* () => setAttribute(attrName, attribute(), element) of line 356 and
\* () => { element.style[styleName] = style() } of line 366, for an
\* attribute or style function that returns the value the container holds
applyBound(M, id) ==
  [M EXCEPT !.attached[id].val = M.value, !.attached[id].applied = @ + 1]

\* observer.fn(newState, oldState); the callbacks of the user are
\*   "user"      one that touches neither the container nor a token
\*   "setter"    one that calls state(SetterValue) unless that is newState
\*   "unsubSelf" one that calls its own unsubscribe token
\*   "unsubPrev" one that calls the token of the observer subscribed before it
\* and the observers of bindAs are
\*   "bindAsUpdate"  () => update(boundElement)
\*   "bindAsReplace" updateReplacer(ctx, element, elCtx)
\* and "bound" is the observer of an attached bound attribute or style
Invoke(M, o, newState, oldState, rollback) ==
  LET M1 == [M EXCEPT !.log = Append(@, [id |-> o.id, new |-> newState,
                                           old |-> oldState, seen |-> M.value])]
  IN IF o.kind = "children"
     THEN IF ~M1.value.arr
          THEN coerce(M1, rollback)
          ELSE reconcile(M1, oldState, TRUE, rollback)
     ELSE IF o.kind = "setter"
     THEN IF newState # SetterValue THEN state(M1, SetterValue, rollback) ELSE M1
     ELSE IF o.kind = "unsubSelf" THEN CallToken(M1, o.id)
     ELSE IF o.kind = "unsubPrev" THEN CallToken(M1, o.id - 1)
     ELSE IF o.kind = "bindAsUpdate"
     THEN updater(M1)
     ELSE IF o.kind = "bindAsReplace" THEN updateReplacer(M1)
     ELSE IF o.kind = "bound" THEN applyBound(M1, o.id)
     ELSE M1

\* a round that gives up once an observer has set another value
RunObserversUntilSet(M, i, newState, oldState, rollback) ==
  IF i > Len(M.observers) THEN M
  ELSE Then(Invoke(M, M.observers[i], newState, oldState, rollback),
            LAMBDA N : IF N.err # "none" \/ N.value # newState THEN N
                       ELSE RunObserversUntilSet(N, i + 1, newState, oldState, rollback))
\* for (const observer of ctx.observers) observer.fn(newState, oldState)
RunObservers(M, i, newState, oldState, rollback) ==
  IF i > Len(M.observers) THEN M
  ELSE Then(Invoke(M, M.observers[i], newState, oldState, rollback),
            LAMBDA N : IF N.err # "none" THEN N
                       ELSE RunObservers(N, i + 1, newState, oldState, rollback))

\* a set that runs the observers first and stores the value after them
stateStoresLast(M, newState, rollback) ==
  [RunObservers(M, 1, newState, M.value, rollback) EXCEPT !.value = newState]
\* ctx.state(newState), the branch that sets
state(M, newState, rollback) ==
  RunObservers([M EXCEPT !.value = newState], 1, newState, M.value, rollback)

\* ctx.state.setPath(path, value, fillWithObjects): the walk changes the
\* object the container holds in place, so the round it dispatches gets
\* that object as the new and as the old value
setPath(M, path, value, fill) ==
  IF ~path.str
  THEN [M EXCEPT !.err = "TypeError"]    \* path.split is not a function
  ELSE Then(split(path.chars), LAMBDA s :
       Then(SetReduce([tree |-> TreeOf(M.value), def |-> TRUE, at |-> <<>>,
                       err |-> "none"], Front(s), 1, fill), LAMBDA w :
         IF w.err # "none" THEN [M EXCEPT !.err = w.err]
         ELSE IF w.def /\ w.tree[w.at].obj
         THEN Then(FromTree(Graft(w.tree, w.at \o <<Last(s)>>, value), M.value),
                   LAMBDA root : state([M EXCEPT !.value = root], root, FALSE))
         ELSE [M EXCEPT !.err = "MissingPathTarget"]))

\* a patch that replaces the object by the update
assignReplacing(M, update) == state(M, update, FALSE)
\* ctx.state.assign(update): Object.assign changes the object the container
\* holds in place and returns it; of a number it returns a wrapper object
assign(M, update) ==
  IF M.value.arr THEN state(M, M.value, FALSE)
  ELSE IF M.value.tree # NoTree
  THEN Then([M.value EXCEPT !.tree = ObjectAssign(@, update.tree)],
            LAMBDA root : state([M EXCEPT !.value = root], root, FALSE))
  ELSE state(M, [Object(ObjectAssign(EmptyTree, update.tree)) EXCEPT !.s = M.value.s],
             FALSE)

(***************************************************************************)
(* The public calls.                                                       *)
(***************************************************************************)
\* where an uncaught stack overflow leaves ctx.currentValue is not fixed:
\* the two values alternate down the stack
FinalValues(M, arg) == IF M.err = "RangeError" THEN {M.value, arg} ELSE {M.value}

\* the observation of a call: with rec the invocations are recorded with
\* their arguments, without it only which observer was invoked
Recorded(entries, rec) ==
  [i \in 1..Len(entries) |->
     IF rec THEN entries[i]
     ELSE [id |-> entries[i].id, new |-> NoVal, old |-> NoVal, seen |-> NoVal]]

Finish(M, arg, rec) ==
  /\ currentValue' \in FinalValues(M, arg)
  /\ selectObservers' = M.selObs
  /\ boundElementByKey' = M.bound
  /\ children' = M.dom
  /\ log' = Recorded(M.log, rec)
  /\ selLog' = <<>>

Quiet == log' = <<>> /\ selLog' = <<>>

\* what a round leaves of the registry and of the bindings
Settle(M) ==
  /\ observers' = M.observers
  /\ tokens' = M.tokens
  /\ elCtx' = IF elCtx.mode = "none" THEN elCtx
              ELSE [M.elCtx EXCEPT !.rendered = Len(M.renders)]
  /\ attached' = M.attached

\* the owners of the selection callbacks that are still registered
Owned(selObs, own) ==
  [cb \in {c \in DOMAIN own :
             \E k \in DOMAIN selObs : \E j \in 1..Len(selObs[k]) : selObs[k][j] = c} |->
     own[cb]]
\* the same, where the collection holds new item containers
Disowned(selObs, own) == [cb \in DOMAIN Owned(selObs, own) |-> 0]

\* state(v) with an argument that is not the container itself; the items of
\* a new array get new containers (line 524), those of the array the
\* container held, or is rolled back to, keep theirs
SetCall(v, rec) ==
  \E M \in {state(Machine, v, FALSE)} :
     /\ Finish(M, v, rec)
     /\ call' = [Call("set", IF rec \/ ~v.arr THEN v ELSE NoVal, Undef, M.err,
                      IF rec /\ M.err = "none" THEN v ELSE NoVal)
                 EXCEPT !.dup = v.arr /\ HasDuplicate(KeysArr(mapKey, v.items)),
                        !.same = (v = currentValue),
                        !.scalar = ~v.arr,
                        !.updated = M.updated]
     /\ Settle(M)
     /\ owners' = IF v = currentValue \/ M.err = "DuplicateKey"
                  THEN Owned(M.selObs, owners) ELSE Disowned(M.selObs, owners)
     /\ initialValue' = [initialValue EXCEPT !.shared = @ /\ v = currentValue]
     /\ UNCHANGED <<nextId, mapKey, selected, nextCb, bindContexts, bindResult,
                    textKeys, lastReset, parentNode, boundAttrs, bindContext>>

\* state() and state(state): return ctx.currentValue
Get ==
  /\ call' = Call("get", NoVal, Undef, "none", currentValue)
  /\ Quiet
  /\ UNCHANGED <<currentValue, observers, nextId, tokens, mapKey, selected,
                 selectObservers, nextCb, bindContexts, bindResult,
                 boundElementByKey, children, textKeys, elCtx, initialValue, lastReset,
                 parentNode, boundAttrs, attached, owners, bindContext>>

\* doSubscribe(ctx, list, listener): list.push({ id, fn })
doSubscribe(list, id, kind) == Append(list, [id |-> id, kind |-> kind])

SubscribeAs(kind) ==
  /\ nextId < MaxSubs
  /\ observers' = doSubscribe(observers, nextId, kind)
  /\ tokens' = Put(tokens, nextId, "armed")
  /\ nextId' = nextId + 1
  /\ call' = Call("subscribe", NoVal, nextId, "none", NoVal)
  /\ Quiet
  /\ UNCHANGED <<currentValue, mapKey, selected, selectObservers, nextCb,
                 bindContexts, bindResult, boundElementByKey, children, textKeys, elCtx, initialValue, lastReset,
                 parentNode, boundAttrs, attached, owners, bindContext>>

\* state.subscribe(callback) with a callback that touches nothing
Subscribe == SubscribeAs("user")

\* the function doSubscribe returns
Unsubscribe ==
  \E id \in DOMAIN tokens :
    /\ IF tokens[id] = "spent"
       THEN \* list is null: list.splice throws
            /\ call' = Call("unsubscribe", NoVal, id, "TypeError", NoVal)
            /\ UNCHANGED <<observers, tokens>>
       ELSE /\ observers' = IF tokens[id] = "stale" THEN observers
                            ELSE splice(observers, findIndex(observers, id))
            /\ tokens' = [tokens EXCEPT ![id] = "spent"]
            /\ call' = Call("unsubscribe", NoVal, id, "none", NoVal)
    /\ Quiet
    /\ UNCHANGED <<currentValue, nextId, mapKey, selected, selectObservers,
                   nextCb, bindContexts, bindResult, boundElementByKey, children,
                   textKeys, elCtx, initialValue, lastReset,
                 parentNode, boundAttrs, attached, owners, bindContext>>

\* the arguments of the binders: a function, a value that is neither a
\* function nor undefined (a string, a node), or nothing
ArgKinds == {"function", "value", "absent"}
\* the parent argument of bindChildren: an element without children,
\* undefined, or an object that is not a node
HostKinds == {"element", "undefined", "object"}
\* renderNode(node) of a parent argument: line 632 turns undefined into the
\* text node 'undefined'; an object is returned as it is
renderNode(host) == IF host = "undefined" THEN "text" ELSE host
\* line 391, on the node renderNode has returned: parent.nodeType is
\* undefined for an object that is not a node
MissingParent(host, node) == node = "object"
\* a test that lets every pair of arguments through
AnyElement(element, update) == FALSE
\* lines 394, 429: neither the element nor the update is a function
NoFunction(element, update) == element # "function" /\ update # "function"
\* lines 345, 361: typeof attr !== 'function'
NotFunction(arg) == arg # "function"
\* element ?? ctx.state
OrState(arg) == IF arg = "absent" THEN "function" ELSE arg

\* a call that throws before it has changed anything
Throws(op, args, err) ==
  /\ call' = [Call(op, NoVal, Undef, err, NoVal) EXCEPT !.args = args]
  /\ Quiet
  /\ UNCHANGED <<currentValue, observers, nextId, tokens, mapKey, selected,
                 selectObservers, nextCb, bindContexts, bindResult,
                 boundElementByKey, children, textKeys, elCtx, initialValue,
                 lastReset, parentNode, boundAttrs, attached, owners, bindContext>>

\* doBindChildren(ctx, parent, element, update), once on a container
doBindChildren(host, element, update) ==
  LET mk == IF mapKey = "fn" THEN "fn" ELSE "index"
      parent == renderNode(host)
  IN /\ bindContexts = 0
     /\ IF MissingParent(host, parent)
        THEN Throws("bindChildren", <<host, element, update>>, "MissingParent")
        ELSE IF NoFunction(element, update)
        THEN Throws("bindChildren", <<host, element, update>>, "MissingUpdateFunction")
        ELSE /\ mapKey' = mk
             /\ IF ~currentValue.arr
                THEN /\ call' = [Call("bindChildren", NoVal, Undef, "NotAnArray", NoVal)
                                  EXCEPT !.args = <<host, element, update>>]
                     /\ bindResult' = "NotAnArray"
                     /\ Quiet
                     /\ UNCHANGED <<currentValue, observers, nextId, selectObservers,
                                    bindContexts, boundElementByKey, children,
                                    initialValue, parentNode, bindContext>>
                ELSE \E M \in {reconcile([Machine EXCEPT !.mapKey = mk,
                                         !.parent = parent,
                                         !.observers = doSubscribe(@, nextId, "children")],
                                       NoVal, FALSE, FALSE)} :
                        /\ Finish(M, currentValue, FALSE)
                        /\ observers' = M.observers
                        /\ nextId' = nextId + 1
                        /\ bindContexts' = 1
                        /\ bindContext' = [element |-> element, update |-> update]
                        /\ bindResult' = M.err
                        /\ parentNode' = parent
                        \* line 405: the container holds a new array
                        /\ initialValue' = [initialValue EXCEPT !.shared = FALSE]
                        /\ call' = [Call("bindChildren", NoVal, Undef, M.err, NoVal)
                                      EXCEPT !.args = <<host, element, update>>]
             /\ UNCHANGED <<tokens, selected, nextCb, textKeys, elCtx, lastReset,
                            boundAttrs, attached, owners>>

\* bindChildren with an element parent that has no children and a render
\* function
BindChildrenCall == doBindChildren("element", "function", "absent")

\* the value of an item container as an item of the list that holds it
ItemOf(v) == IF typeofObject(v) THEN Obj(0) ELSE Prim(v.s)

\* state.bindAs(element, update) on a container of a scalar or of an
\* object, once: doBindAs with element ?? ctx.state, and doBind.
\* Standing alone, the unit is appended to a host by the caller; inList,
\* the call is the render function of a one-item list created without a
\* keyFn, and lines 550-556 of its pass put the unit in the live-units map,
\* tag it with the item's key and append it.
doBindAs(element, update, inList) ==
  LET unit == [key |-> IF inList THEN keyMapper("index", ItemOf(currentValue)) ELSE Undef,
               id |-> 0, text |-> FALSE]
      mode == IF update = "function" THEN "update" ELSE "replace"
  IN IF NoFunction(OrState(element), update)
     THEN Throws("bindAs", <<element, update>>, "MissingUpdateFunction")
     ELSE
     /\ elCtx.mode = "none"
     /\ bindContexts = 0
     /\ ~currentValue.arr
     /\ observers' = doSubscribe(observers, nextId,
                                 IF mode = "update" THEN "bindAsUpdate" ELSE "bindAsReplace")
     /\ nextId' = nextId + 1
     /\ elCtx' = [mode |-> mode, current |-> unit, rendered |-> 1, updated |-> <<>>]
     /\ children' = <<unit>>
     /\ boundElementByKey' = IF inList THEN Put(EmptyMap, unit.key, unit)
                             ELSE boundElementByKey
     /\ call' = [Call("bindAs", NoVal, unit.key, "none", NoVal)
                   EXCEPT !.args = <<element, update>>, !.flag = inList]
     /\ Quiet
     /\ UNCHANGED <<currentValue, tokens, mapKey, selected, selectObservers, nextCb,
                    bindContexts, bindResult, textKeys,
                    initialValue, lastReset, parentNode, boundAttrs, attached, owners, bindContext>>

\* doBindAs with a render function, and with an update function or without
BindAsCall(mode, inList) ==
  doBindAs("function", IF mode = "update" THEN "function" ELSE "absent", inList)

\* an item container that shares the observers of the collection's container
itemStateNotifying(M, i, v) == state(M, [M.value EXCEPT !.items[i] = v], FALSE)
\* ctx.state(v) of the container fnstate(item) of lines 405 and 524: its ctx
\* is its own, the value is assigned to its currentValue and the round runs
\* over its own ctx.observers, of which the model gives it none
itemState(M, i, v) == [M EXCEPT !.value.items[i] = v]

\* item(v) on the container of the i-th item of the bound collection
ItemSetCall(i, v) ==
  /\ bindContexts > 0
  /\ currentValue.arr
  /\ i \in 1..Len(currentValue.items)
  /\ \E M \in {itemState(Machine, i, v)} :
        /\ Finish(M, currentValue, FALSE)
        /\ Settle(M)
        /\ call' = [Call("itemSet", Arr(<<v>>), i, M.err, Arr(<<v>>))
                      EXCEPT !.updated = M.updated]
  /\ UNCHANGED <<nextId, mapKey, selected, nextCb, bindContexts, bindResult,
                 textKeys, initialValue, lastReset, parentNode, boundAttrs,
                 owners, bindContext>>

\* the fields and objects below the root of a value
Size(v) == Cardinality(DOMAIN TreeOf(v)) - 1
\* initialValue after a call that has changed the object the container
\* holds in place: the closure holds that object where it is shared
InPlace(M) ==
  IF initialValue.shared THEN [initialValue EXCEPT !.v = M.value] ELSE initialValue

\* ctx.state.getPath(path); key: the segments of the path
GetPathCall(path) ==
  \E r \in {getPath(currentValue, path)} :
    /\ call' = [Call("getPath", NoVal, Len(split(path.chars)), r.err, r.ret)
                  EXCEPT !.path = path]
    /\ Quiet
    /\ UNCHANGED <<currentValue, observers, nextId, tokens, mapKey, selected,
                   selectObservers, nextCb, bindContexts, bindResult,
                   boundElementByKey, children, textKeys, elCtx, initialValue,
                   lastReset, parentNode, boundAttrs, attached, owners, bindContext>>

\* ctx.state.setPath(path, value, fillWithObjects), on values of up to
\* MaxNodes fields; with rec the call is recorded with its path, the
\* segments of the path and its value
SetPathCall(path, value, fill, rec) ==
  \E M \in {setPath(Machine, path, value, fill)} :
    /\ Size(M.value) <= MaxNodes
    /\ Finish(M, currentValue, FALSE)
    /\ Settle(M)
    /\ call' = [Call("setPath", IF rec THEN value ELSE NoVal,
                      IF rec THEN Len(split(path.chars)) ELSE Undef, M.err, NoVal)
                  EXCEPT !.flag = fill, !.path = IF rec THEN path ELSE NoPath]
    /\ initialValue' = InPlace(M)
    /\ UNCHANGED <<nextId, mapKey, selected, nextCb, bindContexts, bindResult,
                   textKeys, lastReset, parentNode, boundAttrs, owners, bindContext>>

\* ctx.state.assign(update)
AssignCall(update) ==
  \E M \in {assign(Machine, update)} :
    /\ Size(M.value) <= MaxNodes
    /\ Finish(M, currentValue, FALSE)
    /\ Settle(M)
    /\ call' = Call("assign", NoVal, Size(update), M.err, NoVal)
    /\ initialValue' = IF currentValue.tree # NoTree THEN InPlace(M)
                       ELSE [initialValue EXCEPT !.shared = FALSE]
    /\ UNCHANGED <<nextId, mapKey, selected, nextCb, bindContexts, bindResult,
                   textKeys, lastReset, parentNode, boundAttrs, owners, bindContext>>

\* a reset that leaves the observers where they are
resetValueOnly(M, reInit, initial) ==
  [M EXCEPT !.value = IF reInit THEN initial ELSE @]
\* doReset(ctx, reInit, initialValue)
doReset(M, reInit, initial) ==
  [M EXCEPT !.observers = <<>>, !.selObs = EmptyMap,
            !.value = IF reInit THEN initial ELSE @]

\* ctx.state.reset(reInit); the tokens of the observers that are dropped
\* hold the array that was ctx.observers
ResetCall(reInit) ==
  \E M \in {doReset(Machine, reInit, initialValue.v)} :
    /\ Finish(M, currentValue, FALSE)
    /\ observers' = M.observers
    /\ tokens' = [id \in DOMAIN tokens |->
                    IF tokens[id] = "armed" /\ findIndex(M.observers, id) = 0
                    THEN "stale" ELSE tokens[id]]
    /\ lastReset' = [id |-> nextId, cb |-> nextCb]
    /\ owners' = Owned(M.selObs, owners)
    /\ initialValue' = [initialValue EXCEPT !.shared = @ \/ reInit]
    /\ call' = [Call("reset", NoVal, Undef, "none", NoVal) EXCEPT !.flag = reInit]
    /\ UNCHANGED <<nextId, mapKey, selected, nextCb, bindContexts, bindResult,
                   textKeys, elCtx, parentNode, boundAttrs, attached, bindContext>>

\* subscribeSelect(ctx, callback) for the container of the i-th item
subscribeSelect(selObs, key, cb) ==
  Put(selObs, key, Append(IF key \in DOMAIN selObs THEN selObs[key] ELSE <<>>, cb))

SubscribeSelectAs(max, op, args) ==
  \E i \in 1..Len(currentValue.items) :
    /\ bindContexts > 0
    /\ nextCb < max
    /\ IF ~currentValue.linked
       THEN \* ctx.state.parentCtx is undefined
            /\ call' = [Call(op, NoVal, i, "TypeError", NoVal) EXCEPT !.args = args]
            /\ UNCHANGED <<selectObservers, nextCb, owners>>
       ELSE /\ owners' = Put(owners, nextCb, i)
            /\ selectObservers' =
                 subscribeSelect(selectObservers,
                                 keyMapper(mapKey, currentValue.items[i]), nextCb)
            /\ nextCb' = nextCb + 1
            /\ call' = [Call(op, NoVal, i, "none", NoVal) EXCEPT !.args = args]
    /\ Quiet
    /\ UNCHANGED <<currentValue, observers, nextId, tokens, mapKey, selected,
                   bindContexts, bindResult, boundElementByKey, children, textKeys, elCtx, initialValue, lastReset,
                 parentNode, boundAttrs, attached, bindContext>>

SubscribeSelect(max) == SubscribeSelectAs(max, "subscribeSelect", <<>>)

\* state.bindSelect(element, update) on the container of an item of the
\* bound collection: doBindSelect with element ?? ctx.state, and doBind;
\* the selection callback is registered with the container of the
\* collection
doBindSelect(element, update, max) ==
  IF NoFunction(OrState(element), update)
  THEN Throws("bindSelect", <<element, update>>, "MissingUpdateFunction")
  ELSE SubscribeSelectAs(max, "bindSelect", <<element, update>>)

\* state.bindAttr(arg), state.bindStyle(arg), state.bindSelectAttr(arg):
\* createBoundAttr, doBindAttr, doBindStyle and doBindSelectAttr with
\* arg ?? ctx.state; op is the binder
doBindAttr(op, arg, max) ==
  IF NotFunction(OrState(arg)) THEN Throws(op, <<arg>>, "MissingUpdateFunction")
  ELSE /\ Len(boundAttrs) < max
       /\ boundAttrs' = Append(boundAttrs, op)
       /\ call' = [Call(op, NoVal, Len(boundAttrs) + 1, "none", NoVal)
                     EXCEPT !.args = <<arg>>]
       /\ Quiet
       /\ UNCHANGED <<currentValue, observers, nextId, tokens, mapKey, selected,
                      selectObservers, nextCb, bindContexts, bindResult,
                      boundElementByKey, children, textKeys, elCtx, initialValue,
                      lastReset, parentNode, attached, owners, bindContext>>

\* attr.init(attrName, element), styleValue.init(style, element):
\* state.subscribe(...)
init(list, id, kind) == doSubscribe(list, id, kind)

\* setAttribute(attrName, attr, element) and setStyle(style, styleValue,
\* element) with the b-th bound attribute or style: lines 669-671 and
\* 709-711 call init and apply the value once
Attach(b, unit, name, max) ==
  /\ b \in 1..Len(boundAttrs)
  /\ boundAttrs[b] \in {"bindAttr", "bindStyle"}
  /\ nextId < max
  /\ observers' = init(observers, nextId, "bound")
  /\ attached' = Put(Machine.attached, nextId,
                     [bound |-> b, unit |-> unit, name |-> name,
                      val |-> currentValue, applied |-> 1])
  /\ nextId' = nextId + 1
  /\ call' = Call("attach", NoVal, nextId, "none", NoVal)
  /\ Quiet
  /\ UNCHANGED <<currentValue, tokens, mapKey, selected, selectObservers, nextCb,
                 bindContexts, bindResult, boundElementByKey, children, textKeys,
                 elCtx, initialValue, lastReset, parentNode, boundAttrs, owners,
                 bindContext>>

ObsOf(selObs, key) == IF key \in DOMAIN selObs THEN selObs[key] ELSE <<>>
\* a select that notifies the newly selected key before the previous one
doSelectNewFirst(selObs, currentSelected, key) ==
  ObsOf(selObs, key) \o ObsOf(selObs, currentSelected)
\* doSelect(ctx, key): the callbacks it invokes, in order
doSelect(selObs, currentSelected, key) == ObsOf(selObs, currentSelected) \o ObsOf(selObs, key)

SelectCall(key) ==
  /\ selLog' = doSelect(selectObservers, selected, key)
  /\ selected' = key
  /\ call' = Call("select", NoVal, key, "none", NoVal)
  /\ log' = <<>>
  /\ UNCHANGED <<currentValue, observers, nextId, tokens, mapKey, selectObservers,
                 nextCb, bindContexts, bindResult, boundElementByKey, children,
                 textKeys, elCtx, initialValue, lastReset,
                 parentNode, boundAttrs, attached, owners, bindContext>>

(***************************************************************************)
(* Construction and the specifications.                                    *)
(***************************************************************************)
\* ctx.bindContexts is empty
NoContext == [element |-> "absent", update |-> "absent"]
\* initialValue where no reset() is among the calls of a specification
NoInitial == [v |-> NoVal, shared |-> FALSE, made |-> NoVal]
\* fnstate(initialValue, mapKey); kept: what is kept of initialValue
Construct(v, mk, kept) ==
  /\ currentValue = v
  /\ initialValue = kept
  /\ lastReset = [id |-> 0, cb |-> 0]
  /\ parentNode = "none"
  /\ boundAttrs = <<>>
  /\ attached = EmptyMap
  /\ owners = EmptyMap
  /\ bindContext = NoContext
  /\ observers = <<>>
  /\ nextId = 0
  /\ tokens = EmptyMap
  /\ mapKey = mk
  /\ selected = Undef
  /\ selectObservers = EmptyMap
  /\ nextCb = 0
  /\ bindContexts = 0
  /\ bindResult = "unbound"
  /\ elCtx = NoBinding
  /\ boundElementByKey = EmptyMap
  /\ children = <<>>
  /\ call = Call("fnstate", NoVal, Undef, "none", NoVal)
  /\ log = <<>> /\ selLog = <<>>
\* a container no reset() is called on
fnstate(v, mk) == Construct(v, mk, NoInitial)
\* a container with reset() among its calls
fnstateKept(v, mk) == Construct(v, mk, [v |-> v, shared |-> TRUE, made |-> v])

\* ---- the observer registry: set, get, subscribe, unsubscribe
Scalars == {Scalar(n) : n \in 0..NVals}
ObsInit == (\E v \in Scalars : fnstate(v, "absent")) /\ textKeys = {}
ObsSet == \E v \in Scalars : SetCall(v, TRUE)
ObsNext == ObsSet \/ Get \/ Subscribe \/ Unsubscribe
SpecObs == ObsInit /\ [][ObsNext]_vars

\* ---- the registry with observers that set the container again
NestInit == ObsInit
NestSet == \E v \in Scalars : SetCall(v, TRUE)
NestSubscribe == \E kind \in {"user", "setter"} : SubscribeAs(kind)
NestUnsubscribe == Unsubscribe
NestNext == NestSet \/ NestSubscribe \/ NestUnsubscribe
SpecNest == NestInit /\ [][NestNext]_vars

\* ---- the registry with observers that call unsubscribe tokens
RoundInit == ObsInit
RoundSet == \E v \in Scalars : SetCall(v, TRUE)
RoundSubscribe ==
  \E kind \in {"user", "unsubSelf", "unsubPrev"} :
     /\ kind = "unsubPrev" => nextId > 0
     /\ SubscribeAs(kind)
RoundUnsubscribe == Unsubscribe
RoundNext == RoundSet \/ RoundSubscribe \/ RoundUnsubscribe
SpecRound == RoundInit /\ [][RoundNext]_vars

\* ---- a container bound with bindAs, alone or as the item of a list
AsInit == ObsInit
AsBind == \E mode \in {"update", "replace"}, inList \in BOOLEAN : BindAsCall(mode, inList)
AsSubscribe == SubscribeAs("user")
AsSet == \E v \in Scalars : SetCall(v, TRUE)
AsNext == AsBind \/ AsSubscribe \/ AsSet
SpecAs == AsInit /\ [][AsNext]_vars

\* ---- a bound collection driven by set() on its container
Collections == {Arr(c) : c \in SeqsUpTo(KeyedItems(NKeys), MaxLen)}
Init ==
  /\ \E v \in Collections : fnstate(v, "fn")
  /\ textKeys = {k \in 0..NKeys : k % 2 = 0}
BindChildren == BindChildrenCall
\* set() with a new array, or with the array the container holds
Set == bindContexts > 0 /\ \E v \in Collections \cup {currentValue} : SetCall(v, FALSE)
Next == BindChildren \/ Set
Spec == Init /\ [][Next]_vars

\* ---- the same, with set() of values that are not arrays
CoerceInit == Init
CoerceBind == BindChildrenCall
CoerceSet == bindContexts > 0 /\ \E v \in Collections \cup Scalars : SetCall(v, FALSE)
CoerceNext == CoerceBind \/ CoerceSet
SpecCoerce == CoerceInit /\ [][CoerceNext]_vars

\* ---- a collection of objects in a container created without a keyFn
IndexItems == {Obj(n) : n \in 1..IndexObjs} \cup {Prim(IndexObjs + 1)}
IndexCollections == {Arr(c) : c \in SeqsUpTo(IndexItems, IndexLen)}
IndexInit ==
  /\ \E v \in IndexCollections : fnstate(v, "absent")
  /\ textKeys = {}
IndexBind == BindChildrenCall
IndexSet == bindContexts > 0 /\ \E v \in IndexCollections : SetCall(v, FALSE)
IndexNext == IndexBind \/ IndexSet
SpecIndex == IndexInit /\ [][IndexNext]_vars

\* ---- the same, with set() on the containers of the items
ItemCollections == {Arr(c) : c \in SeqsUpTo(ItemValues(ItemPrims), ItemLen)}
ItemsInit ==
  /\ \E v \in ItemCollections : fnstate(v, "fn")
  /\ textKeys \in {{}, 0..ItemPrims}
ItemsBind == BindChildrenCall
ItemsSet == bindContexts > 0 /\ \E v \in ItemCollections \cup {currentValue} : SetCall(v, FALSE)
ItemSet == \E i \in 1..ItemLen, v \in ItemValues(ItemPrims) : ItemSetCall(i, v)
ItemsNext == ItemsBind \/ ItemsSet \/ ItemSet
SpecItems == ItemsInit /\ [][ItemsNext]_vars

\* ---- the selection channel of a bound collection
SelCollections == {Arr(c) : c \in SeqsUpTo(KeyedItems(SelKeys), SelLen)}
SelInit ==
  /\ \E v \in SelCollections : fnstate(v, "fn")
  /\ textKeys = {k \in 0..SelKeys : k % 2 = 0}
SelBind == BindChildrenCall
SelSubscribe == SubscribeSelect(MaxSelObs)
\* select(key) with the key of an item, or with a key no item has
Select == \E key \in 1..SelKeys : SelectCall(key)
SelNext == SelBind \/ SelSubscribe \/ Select
SpecSel == SelInit /\ [][SelNext]_vars

\* ---- the same, with set() on the container of the collection; the items
\* render all as elements or all as text nodes
PurgeCollections == {Arr(c) : c \in SeqsUpTo(KeyedItems(PurgeKeys), PurgeLen)}
PurgeInit ==
  /\ \E v \in PurgeCollections : fnstate(v, "fn")
  /\ textKeys \in {{}, 0..PurgeKeys}
PurgeBind == BindChildrenCall
PurgeSet == bindContexts > 0 /\ \E v \in PurgeCollections : SetCall(v, FALSE)
PurgeSubscribe == SubscribeSelect(PurgeObs)
PurgeSelect == \E key \in 1..PurgeKeys : SelectCall(key)
PurgeNext == PurgeBind \/ PurgeSet \/ PurgeSubscribe \/ PurgeSelect
SpecPurge == PurgeInit /\ [][PurgeNext]_vars

\* ---- selection observers on a collection that set() empties and refills
ClearCollections == {Arr(c) : c \in SeqsUpTo(KeyedItems(ClearKeys), ClearLen)}
ClearInit ==
  /\ \E v \in ClearCollections : fnstate(v, "fn")
  /\ textKeys \in {{}, 0..ClearKeys}
ClearBind == BindChildrenCall
ClearSet == bindContexts > 0 /\ \E v \in ClearCollections : SetCall(v, FALSE)
ClearSubscribe == SubscribeSelect(ClearObs)
ClearNext == ClearBind \/ ClearSet \/ ClearSubscribe
SpecClear == ClearInit /\ [][ClearNext]_vars

\* ---- a container of an object: paths, patches and reset
PathPrims == {Scalar(n) : n \in 1..PathVals}
\* what a field is given: a primitive or {}
FieldValues == PathPrims \cup {EmptyObject}
\* the objects with the one-letter fields: f[name] is 0 where the field is
\* absent, n where it is the primitive n and PathVals + 1 where it is {}
Fields(f) ==
  Object([q \in {<<>>} \cup {<<n>> : n \in {m \in DOMAIN f : f[m] # 0}} |->
            IF q = <<>> \/ f[q[1]] > PathVals THEN Node ELSE Leaf(f[q[1]])])
Partials == {Fields(f) : f \in [{<<c>> : c \in Letters} -> 0..(PathVals + 1)]}
PathValues == Partials \cup PathPrims
\* the strings of up to MaxSegs field names joined by dots, the empty
\* string among them
Paths == {Str(Join(segs)) : segs \in SeqsUpTo(PathNames, MaxSegs) \ {<<>>}}
\* those without an empty field name
LetterPaths == {p \in Paths : <<>> \notin {split(p.chars)[i] : i \in 1..Len(split(p.chars))}}
PathInit == (\E v \in PathValues : fnstate(v, "absent")) /\ textKeys = {}
\* getPath(path) with a string or with undefined
PathGet == \E p \in Paths \cup {NoPath} : GetPathCall(p)
PathSet ==
  \E p \in LetterPaths, v \in FieldValues, fill \in BOOLEAN :
     SetPathCall(p, v, fill, TRUE)
PathStore == \E v \in PathValues : SetCall(v, FALSE)
PathSubscribe == nextId < PathSubs /\ SubscribeAs("user")
PathNext == PathGet \/ PathSet \/ PathStore \/ PathSubscribe
SpecPath == PathInit /\ [][PathNext]_vars

\* ---- the same container: setPath() with fillWithObjects, and assign()
FillInit == PathInit
FillSet == \E p \in LetterPaths, v \in FieldValues : SetPathCall(p, v, TRUE, FALSE)
FillAssign == \E u \in Partials : AssignCall(u)
FillSubscribe == nextId < PathSubs /\ SubscribeAs("user")
FillNext == FillSet \/ FillAssign \/ FillSubscribe
SpecFill == FillInit /\ [][FillNext]_vars

\* ---- the same container with reset(): what set(), assign() and setPath()
\* without fillWithObjects leave of the value it was constructed with
ReinitInit == (\E v \in PathValues : fnstateKept(v, "absent")) /\ textKeys = {}
ReinitStore == \E v \in PathValues : SetCall(v, FALSE)
ReinitAssign == \E u \in Partials : AssignCall(u)
ReinitSetPath ==
  \E p \in LetterPaths, v \in FieldValues : SetPathCall(p, v, FALSE, FALSE)
ReinitReset == \E reInit \in BOOLEAN : ResetCall(reInit)
ReinitNext == ReinitStore \/ ReinitAssign \/ ReinitSetPath \/ ReinitReset
SpecReinit == ReinitInit /\ [][ReinitNext]_vars

\* ---- reset() on a container with observers, a bound collection and
\* selection callbacks
ResetCollections == {Arr(c) : c \in SeqsUpTo(KeyedItems(ResetKeys), ResetLen)}
\* the container is constructed with one item of each key
ResetInit ==
  /\ fnstateKept(Arr([k \in 1..ResetKeys |-> IF k \in ObjIds THEN Obj(k) ELSE Prim(k)]), "fn")
  /\ textKeys = {}
ResetBind == BindChildrenCall
ResetSet == \E v \in ResetCollections : SetCall(v, FALSE)
ResetSubscribe == nextId < ResetSubs /\ SubscribeAs("user")
ResetSubscribeSelect == SubscribeSelect(ResetObs)
ResetSelect == \E key \in 1..ResetKeys : SelectCall(key)
ResetReset == \E reInit \in BOOLEAN : ResetCall(reInit)
ResetNext ==
  \/ ResetBind \/ ResetSet \/ ResetSubscribe \/ ResetSubscribeSelect
  \/ ResetSelect \/ ResetReset
SpecReset == ResetInit /\ [][ResetNext]_vars

\* ---- the binders and their arguments, on a container of a collection or
\* of a scalar
ArgsValues == {Arr(c) : c \in SeqsUpTo(KeyedItems(ArgsKeys), ArgsLen)} \cup Scalars
ArgsInit == (\E v \in ArgsValues : fnstate(v, "fn")) /\ textKeys = {}
ArgsBindAs == \E e \in ArgKinds, u \in ArgKinds : doBindAs(e, u, FALSE)
ArgsBindSelect == \E e \in ArgKinds, u \in ArgKinds : doBindSelect(e, u, ArgsObs)
ArgsBindChildren ==
  \E h \in HostKinds, e \in ArgKinds, u \in ArgKinds : doBindChildren(h, e, u)
ArgsBindAttr ==
  \E op \in {"bindAttr", "bindStyle", "bindSelectAttr"}, a \in ArgKinds :
     doBindAttr(op, a, ArgsBound)
ArgsNext == ArgsBindAs \/ ArgsBindSelect \/ ArgsBindChildren \/ ArgsBindAttr
SpecArgs == ArgsInit /\ [][ArgsNext]_vars

\* ---- bound attributes and styles on a container of a scalar
AttrInit == ObsInit
AttrCreate == \E op \in {"bindAttr", "bindStyle"}, a \in ArgKinds : doBindAttr(op, a, AttrBound)
AttrAttach ==
  \E b \in 1..AttrBound, unit \in 1..AttrUnits, name \in 1..AttrNames :
     Attach(b, unit, name, AttrSubs)
AttrSubscribe == nextId < AttrSubs /\ SubscribeAs("user")
AttrSet == \E v \in Scalars : SetCall(v, FALSE)
AttrNext == AttrCreate \/ AttrAttach \/ AttrSubscribe \/ AttrSet
SpecAttr == AttrInit /\ [][AttrNext]_vars

\* ---- a bound collection with observers subscribed before and after
\* bindChildren
DupCollections == {Arr(c) : c \in SeqsUpTo(KeyedItems(DupKeys), DupLen)}
DupInit == (\E v \in DupCollections : fnstate(v, "fn")) /\ textKeys = {}
DupBind == BindChildrenCall
DupSubscribe == nextId < DupSubs /\ SubscribeAs("user")
DupSet == bindContexts > 0 /\ \E v \in DupCollections : SetCall(v, TRUE)
DupNext == DupBind \/ DupSubscribe \/ DupSet
SpecDup == DupInit /\ [][DupNext]_vars

\* ---- a bound collection and the containers of its items: set() on the
\* collection and on an item, bindSelect on an item, select()
OwnCollections == {Arr(c) : c \in SeqsUpTo(KeyedItems(OwnKeys), OwnLen)}
OwnInit == (\E v \in OwnCollections : fnstate(v, "fn")) /\ textKeys = {}
\* bindChildren(parent, render) and bindChildren(parent, render, update)
OwnBind == \E u \in {"function", "absent"} : doBindChildren("element", "function", u)
OwnSubscribe == nextId < OwnSubs /\ SubscribeAs("user")
OwnBindSelect == doBindSelect("function", "function", OwnObs)
OwnSet == bindContexts > 0 /\ \E v \in OwnCollections : SetCall(v, FALSE)
OwnItemSet == \E i \in 1..OwnLen, v \in KeyedItems(OwnKeys) : ItemSetCall(i, v)
OwnSelect == \E key \in 1..OwnKeys : SelectCall(key)
OwnNext ==
  \/ OwnBind \/ OwnSubscribe \/ OwnBindSelect \/ OwnSet \/ OwnItemSet \/ OwnSelect
SpecOwn == OwnInit /\ [][OwnNext]_vars

\* ---- a bound collection of any of the initial values, observers of its
\* container, and set() on the containers of its items
KeepCollections == {Arr(c) : c \in SeqsUpTo(KeyedItems(KeepKeys), KeepLen)}
KeepInit == (\E v \in KeepCollections : fnstate(v, "fn")) /\ textKeys = {}
KeepBind == BindChildrenCall
KeepSubscribe == nextId < KeepSubs /\ SubscribeAs("user")
KeepItemSet == \E i \in 1..KeepLen, v \in KeyedItems(KeepKeys) : ItemSetCall(i, v)
KeepNext == KeepBind \/ KeepSubscribe \/ KeepItemSet
SpecKeep == KeepInit /\ [][KeepNext]_vars

\* ---- the container of the one item of a list, bound with bindAs in the
\* render function of the list; the item is a scalar or an object
SwapValues == Scalars \cup Partials
SwapInit == (\E v \in SwapValues : fnstate(v, "absent")) /\ textKeys = {}
SwapBind == \E mode \in {"update", "replace"} : BindAsCall(mode, TRUE)
SwapSet == \E v \in SwapValues : SetCall(v, FALSE)
SwapNext == SwapBind \/ SwapSet
SpecSwap == SwapInit /\ [][SwapNext]_vars

(***************************************************************************)
(* Properties of the observer registry, checked under SpecObs.             *)
(***************************************************************************)
\* the observers registered now: subscribed, and their token not called
Registered == {id \in DOMAIN tokens : tokens[id] = "armed"}
LogIds == {log[i].id : i \in 1..Len(log)}

\* C1: a set() call invokes every observer registered at that moment exactly
\* once, in subscription order (ids are handed out in subscription order),
\* also when the new value equals the current one; an observer whose
\* unsubscribe token has been called is not invoked.
C1_EveryObserverOnceInOrder ==
  call.op = "set" =>
    /\ LogIds = Registered
    /\ Len(log) = Cardinality(Registered)
    /\ \A i, j \in 1..Len(log) : i < j => log[i].id < log[j].id

\* C1: a set() of the value the container holds already, with two observers
\* registered and a third one unsubscribed before the call
C1_Witness ==
  /\ call.op = "set"
  /\ Len(log) = 2
  /\ log[1].new = log[1].old
  /\ \E id \in DOMAIN tokens : tokens[id] = "spent"

\* C10: set(v) stores v before the first observer is invoked (every observer
\* sees v in the container), passes every observer (v, the value held right
\* before the call) and returns v.
C10_SetStoresPassesReturns ==
  [][call'.op = "set" =>
       /\ currentValue' = call'.val
       /\ call'.ret = call'.val
       /\ \A i \in 1..Len(log') :
            /\ log'[i].seen = call'.val
            /\ log'[i].new = call'.val
            /\ log'[i].old = currentValue]_vars

\* C10: a set() of a value other than the one held, with two observers
C10_Witness ==
  /\ call.op = "set"
  /\ Len(log) >= 2
  /\ log[1].old # call.val
  /\ call.ret = call.val

\* the invocations of a call, as <<observer, newValue>>, in order
Invocations(entries) == [j \in 1..Len(entries) |-> <<entries[j].id, entries[j].new>>]
\* one round for w over the registered observers
RoundOf(w) == [j \in 1..Len(observers) |-> <<observers[j].id, w>>]
RECURSIVE OuterFrom(_, _)
\* the outer round for v from its i-th observer on: each observer once, and
\* right after an observer that sets SetterValue the whole round for it
OuterFrom(v, i) ==
  IF i > Len(observers) THEN <<>>
  ELSE <<<<observers[i].id, v>>>>
         \o (IF observers[i].kind = "setter" /\ v # SetterValue
             THEN RoundOf(SetterValue) ELSE <<>>)
         \o OuterFrom(v, i + 1)

\* C11: when an observer calls set(w) during the round of set(v), the round
\* of w invokes every registered observer before the round of v invokes its
\* next observer, and the round of v then invokes each remaining observer
\* exactly once (checked under SpecNest).
C11_NestedRoundRunsFirst ==
  call.op = "set" => Invocations(log) = OuterFrom(call.val, 1)

\* C11: a set() whose second observer of three has set another value
C11_Witness ==
  /\ call.op = "set" /\ call.val # SetterValue
  /\ Len(observers) = 3
  /\ observers[2].kind = "setter"
  /\ Len(log) >= 6

\* C12: calling an unsubscribe token a second time completes without error
\* and leaves the registry as it is (checked under SpecObs).
C12_SecondCallIdle ==
  [][(call'.op = "unsubscribe" /\ tokens[call'.key] = "spent") =>
        call'.result = "none" /\ observers' = observers]_vars

\* C13: when an unsubscribe token is called from inside a round, every
\* observer registered when the round began, other than the one that calls
\* the token and the one it unsubscribes, is still invoked exactly once in
\* that round (checked under SpecRound).
C13_RoundNotInterrupted ==
  [][(call'.op = "set" /\ call'.result = "none") =>
       \A i \in 1..Len(observers) :
         (/\ observers[i].kind = "user"
          /\ ~\E j \in 1..Len(observers) :
                /\ observers[j].kind = "unsubPrev"
                /\ observers[j].id = observers[i].id + 1) =>
           Cardinality({n \in 1..Len(log') : log'[n].id = observers[i].id}) = 1]_vars

(***************************************************************************)
(* Properties of bindAs, checked under SpecAs.                             *)
(***************************************************************************)
\* C14: for a bindAs binding without an update function, the swap of the old
\* unit for the new one is not performed inside the round of the set() that
\* triggers it: when set() returns, the old unit is still the one the
\* binding holds and the one in the tree.
C14_SwapAfterReturn ==
  [][(call'.op = "set" /\ elCtx.mode = "replace") =>
        /\ elCtx'.current = elCtx.current
        /\ children' = children]_vars

\* C15: for a bindAs binding without an update function, every set()
\* renders once and the new unit takes the old unit's place in the tree
\* with the old unit's key tag, also when a list pass tagged the old unit.
C15_SwapKeepsKeyTag ==
  [][(call'.op = "set" /\ elCtx.mode = "replace") =>
        /\ call'.result = "none"
        /\ elCtx'.rendered = 1
        /\ elCtx'.current # elCtx.current
        /\ elCtx'.current.key = elCtx.current.key
        /\ children' = <<elCtx'.current>>]_vars

\* C16: for a bindAs binding with an update function, renderFn is called
\* once, by the bindAs call; every later set() calls updateFn exactly once,
\* with the unit rendered then, and the unit stays in the tree.
C16_UpdateInPlace ==
  [][/\ (call'.op = "bindAs" /\ elCtx'.mode = "update") => elCtx'.rendered = 1
     /\ (call'.op = "set" /\ elCtx.mode = "update") =>
          /\ call'.result = "none"
          /\ elCtx'.rendered = 0
          /\ elCtx'.updated = <<elCtx.current>>
          /\ elCtx'.current = elCtx.current
          /\ children' = children]_vars

\* C16: a set() on a container bound with an update function, with another
\* observer subscribed, has called updateFn with the unit of the binding
C16_Witness ==
  /\ call.op = "set" /\ elCtx.mode = "update"
  /\ Len(log) >= 2
  /\ elCtx.updated = <<elCtx.current>>
  /\ children = <<elCtx.current>>

(***************************************************************************)
(* Properties of the keyed reconciliation, checked under Spec.  What a     *)
(* set() does is a function of the state it is called in and of its        *)
(* argument: AfterSet(c) is the machine SetCall(c, _) ends with, so a      *)
(* property of AfterSet(c) in every reachable state is a property of every *)
(* set(c) step, the steps that leave the variables as they are included.   *)
(***************************************************************************)
AfterSet(c) == state(Machine, c, FALSE)
KeysOf(c) == KeysArr(mapKey, c.items)
\* bindChildren has returned normally on this container
Bound == bindContexts > 0 /\ bindResult = "none"
Times(seq, x) == Cardinality({j \in 1..Len(seq) : seq[j] = x})

\* C2: after bindChildren and after every set(c) that returns normally, the
\* key tags of the parent's children, first to last, are the keys of the
\* items of c in collection order, whatever the children were before.
C2_ChildrenFollowCollection ==
  (call.op \in {"set", "bindChildren"} /\ call.result = "none") =>
     KeysOfDom(children) = KeysOf(currentValue)

\* C2: a set() has returned normally and left three children in an order
\* that is not the order of their keys
C2_Witness ==
  /\ call.op = "set" /\ call.result = "none" /\ ~call.same
  /\ KeysOfDom(children) = <<3, 1, 2>>

\* C3: on a bound collection, a set() that returns normally keeps, for every
\* key the collection had before and has after, the identical unit in the
\* map and in the parent and does not render it; it renders every new key
\* exactly once.
C3_PersistingUnitsKept ==
  Bound =>
    \A c \in Collections : \A M \in {AfterSet(c)} :
      M.err = "none" =>
        \A k \in KeySet(KeysOf(c)) :
          IF k \in KeySet(KeysOf(currentValue))
          THEN /\ k \in DOMAIN boundElementByKey /\ k \in DOMAIN M.bound
               /\ M.bound[k] = boundElementByKey[k]
               /\ IndexOf(M.dom, boundElementByKey[k]) > 0
               /\ Times(M.renders, k) = 0
          ELSE Times(M.renders, k) = 1

\* C3: a set() has left the children keyed 1, 2, 3, and the set() of the
\* same items reordered to 3, 1, 2 keeps the three units, renders none and
\* leaves them in the new order; a set() that adds key 3 renders it
C3_Witness ==
  /\ Bound /\ call.op = "set" /\ call.result = "none"
  /\ KeysOfDom(children) = <<1, 2, 3>>
  /\ \E M \in {AfterSet(Arr(<<Prim(3), Obj(1), Prim(2)>>))} :
        /\ M.renders = <<>>
        /\ M.bound = boundElementByKey
        /\ KeysOfDom(M.dom) = <<3, 1, 2>>
        /\ M.ops > 0

C17_CoercedToOneItem ==
  [][(Bound /\ call'.op = "set" /\ call'.scalar) =>
        /\ call'.result = "none"
        /\ currentValue'.arr
        /\ currentValue'.items = <<Prim(call'.val.s)>>
        /\ KeysOfDom(children') = <<call'.val.s>>
        /\ DOMAIN boundElementByKey' = {call'.val.s}
        /\ boundElementByKey'[call'.val.s] = children'[1]]_vars

\* C17: a set() of a value that is not an array has returned on a bound
\* collection that held other items
C17_Witness ==
  /\ Bound /\ call.op = "set" /\ call.scalar
  /\ currentValue.items = <<Prim(call.val.s)>>
  /\ Len(children) = 1
  /\ call.val.s = 0

\* C18: on set(v) with v not an array, neither a pass nor the follow-up
\* set([v]) runs inside the round of set(v): when set(v) returns the
\* container holds v and the parent and the map are untouched.
C18_FollowUpAfterReturn ==
  [][(Bound /\ call'.op = "set" /\ call'.scalar) =>
        /\ currentValue' = call'.val
        /\ children' = children
        /\ boundElementByKey' = boundElementByKey]_vars

\* C19: bindChildren on a container created without keyFn keys the items by
\* position: a collection of two or more object items is reconciled into
\* one child per item, without DuplicateKey (checked under SpecIndex).
C19_IndexKeysDistinct ==
  (/\ call.op = "bindChildren"
   /\ Len(currentValue.items) >= 2
   /\ \A i \in 1..Len(currentValue.items) : currentValue.items[i].obj) =>
     /\ call.result = "none"
     /\ Len(children) = Len(currentValue.items)

(***************************************************************************)
(* Properties of the selection channel.                                    *)
(***************************************************************************)
Invoked(seq) == {seq[i] : i \in 1..Len(seq)}

\* C4: after a set() on a bound collection that drops a key from the
\* collection, no child of the parent carries the key, the live-units map
\* does not hold it and no selection observer is registered under it,
\* whether the units are elements or text nodes.
C4_DroppedKeyPurged ==
  [][(Bound /\ call'.op = "set" /\ call'.result = "none") =>
       \A k \in KeySet(KeysOf(currentValue)) \ KeySet(KeysOf(currentValue')) :
         /\ k \notin KeySet(KeysOfDom(children'))
         /\ k \notin DOMAIN boundElementByKey'
         /\ k \notin DOMAIN selectObservers']_vars

\* C20: after set([]) on a bound container the parent has no children, the
\* live-units map is empty and no selection observer is registered under
\* any key; a later set() of items with distinct keys renders every item
\* afresh, once (checked under SpecClear).
C20_EmptyClearsAll ==
  (Bound /\ call.op = "set" /\ call.result = "none" /\ currentValue.items = <<>>) =>
     /\ children = <<>>
     /\ boundElementByKey = EmptyMap
     /\ selectObservers = EmptyMap
     /\ \A c \in ClearCollections : ~HasDuplicate(KeysOf(c)) =>
           \A M \in {AfterSet(c)} :
              /\ Len(M.renders) = Len(c.items)
              /\ \A k \in KeySet(KeysOf(c)) : Times(M.renders, k) = 1

\* C20: a set([]) has returned on a bound collection after two selection
\* observers were registered
C20_Witness ==
  /\ Bound /\ call.op = "set" /\ call.result = "none"
  /\ currentValue.items = <<>>
  /\ nextCb = 2

\* C6: after a successful bindChildren, whatever parent set() and item
\* set() calls follow, the keys of the collection's items are pairwise
\* distinct and so are the key tags of the parent's children.
C6_KeysPairwiseDistinct ==
  Bound => /\ ~HasDuplicate(KeysOf(currentValue))
           /\ ~HasDuplicate(KeysOfDom(children))

\* C7: select(x) with nothing selected invokes the callbacks registered
\* under x and no other; select(y) with x selected invokes the callbacks
\* registered under x, then those registered under y, and no other; after
\* either, the selected key is the key of the call.
C7_SelectOrder ==
  [][call'.op = "select" =>
       /\ selected' = call'.key
       /\ selected = Undef => selLog' = ObsOf(selectObservers, call'.key)
       /\ (selected # Undef /\ selected # call'.key) =>
             selLog' = ObsOf(selectObservers, selected)
                         \o ObsOf(selectObservers, call'.key)
       /\ \A k \in DOMAIN selectObservers \ {selected, call'.key} :
             Invoked(selLog') \cap Invoked(selectObservers[k]) = {}]_vars

\* C7: a select(y) has invoked the callbacks of the key selected before it
\* and then those of y, with a callback registered under a third key
C7_Witness ==
  /\ call.op = "select"
  /\ \E x \in DOMAIN selectObservers \ {selected} :
        /\ selected \in DOMAIN selectObservers
        /\ selLog = selectObservers[x] \o selectObservers[selected]
        /\ DOMAIN selectObservers \ {x, selected} # {}

\* C8: one select() call invokes no selection callback more than once.
C8_NoCallbackTwice ==
  call.op = "select" =>
    \A i, j \in 1..Len(selLog) : i < j => selLog[i] # selLog[j]

(***************************************************************************)
(* Properties of getPath, setPath and assign on a container of an object.  *)
(***************************************************************************)
\* a segment of the path is absent: the names up to it lead to no field
Absent(tree, segs) == \E i \in 1..Len(segs) : SubSeq(segs, 1, i) \notin DOMAIN tree

\* C21: getPath(path) on an object value returns undefined, without
\* raising, whenever a segment of the path is absent from the object, the
\* last one or an intermediate one (checked under SpecPath).
C21_AbsentSegmentUndefined ==
  (/\ call.op = "getPath" /\ call.path.str
   /\ currentValue.tree # NoTree
   /\ Absent(currentValue.tree, split(call.path.chars))) =>
     call.result = "none" /\ call.ret = UndefVal

\* C22: getPath fails with InvalidPath for every path that is not a
\* non-empty string, the empty string included, and with NotAnObject
\* whenever the current value is not a structured object; a failing getPath
\* changes no state and invokes no observer.
C22_GetPathRejects ==
  [][call'.op = "getPath" =>
       /\ (~call'.path.str \/ call'.path.chars = <<>>) =>
             call'.result = "InvalidPath"
       /\ (call'.path.str /\ call'.path.chars # <<>> /\ ~typeofObject(currentValue)) =>
             call'.result = "NotAnObject"
       /\ call'.result # "none" =>
             /\ currentValue' = currentValue /\ observers' = observers
             /\ log' = <<>>]_vars

\* one round has run over the observers, each given root as the new value
OneRound(entries, root) ==
  /\ Len(entries) = Len(observers)
  /\ \A j \in 1..Len(entries) :
        entries[j].id = observers[j].id /\ entries[j].new = root

\* C23: after setPath(p, v, true) returns on an object value, getPath(p)
\* returns v, every intermediate segment of p exists as an object, the
\* ones that were missing included, and exactly one dispatch round has run,
\* with the root value as the new value (checked under SpecFill for every
\* path of named fields and every value, in every reachable state).
C23_FillThenGet ==
  currentValue.tree # NoTree =>
    \A p \in LetterPaths, v \in FieldValues : \A M \in {setPath(Machine, p, v, TRUE)} :
      M.err = "none" =>
        /\ getPath(M.value, p) = [err |-> "none", ret |-> v]
        /\ \A i \in 1..(Len(split(p.chars)) - 1) :
              /\ SubSeq(split(p.chars), 1, i) \in DOMAIN M.value.tree
              /\ M.value.tree[SubSeq(split(p.chars), 1, i)].obj
        /\ OneRound(M.log, M.value)

\* C23: a setPath() with fillWithObjects has returned with an observer
\* subscribed and left a field below a field, and from the value it left a
\* path of three segments whose first is missing can be filled in
C23_Witness ==
  /\ call.op = "setPath" /\ call.flag /\ call.result = "none"
  /\ Len(log) = 1
  /\ \E q \in DOMAIN currentValue.tree : Len(q) = 2
  /\ \E p \in Paths :
        /\ Len(split(p.chars)) = 3
        /\ <<split(p.chars)[1]>> \notin DOMAIN currentValue.tree
        /\ \E M \in {setPath(Machine, p, EmptyObject, TRUE)} :
              M.err = "none" /\ Size(M.value) > Size(currentValue) + 2

\* the parent the path resolves to is missing or is not an object
ParentMissing(tree, segs) ==
  Front(segs) \notin DOMAIN tree \/ ~tree[Front(segs)].obj

\* C24: setPath(p, v) without fillWithObjects, when the parent p resolves
\* to is missing or is not an object, fails with MissingPathTarget, leaves
\* the value as it was and invokes no observer, however many segments of p
\* are missing (checked under SpecPath).
C24_MissingParentRejected ==
  [][(/\ call'.op = "setPath" /\ ~call'.flag
      /\ ParentMissing(TreeOf(currentValue), split(call'.path.chars))) =>
        /\ call'.result = "MissingPathTarget"
        /\ currentValue' = currentValue
        /\ log' = <<>>]_vars

\* the own fields of an object
FieldsOf(tree) == {q[1] : q \in {r \in DOMAIN tree : Len(r) = 1}}

\* C25: assign(partial) on an object value leaves get() with every field of
\* partial set to partial's value and every other field as it was, and runs
\* exactly one dispatch round (checked under SpecFill for every partial in
\* every reachable state).
C25_PatchMerges ==
  currentValue.tree # NoTree =>
    \A u \in Partials : \A M \in {assign(Machine, u)} :
      /\ M.err = "none"
      /\ FieldsOf(M.value.tree) = FieldsOf(currentValue.tree) \cup FieldsOf(u.tree)
      /\ \A k \in FieldsOf(u.tree) :
            ValueAt(M.value.tree, <<k>>) = ValueAt(u.tree, <<k>>)
      /\ \A k \in FieldsOf(currentValue.tree) \ FieldsOf(u.tree) :
            ValueAt(M.value.tree, <<k>>) = ValueAt(currentValue.tree, <<k>>)
      /\ OneRound(M.log, M.value)

\* C25: an assign() of one field has returned on an object that has a
\* field of another name, with an observer subscribed
C25_Witness ==
  /\ call.op = "assign" /\ call.key = 1 /\ call.result = "none"
  /\ Len(log) = 1
  /\ Cardinality(FieldsOf(currentValue.tree)) = 2

\* C27: after reset(true), get() returns the value the container was
\* constructed with, whatever set(), assign() and setPath() calls preceded
\* the reset, for primitive and for object initial values (checked under
\* SpecReinit).
C27_ResetRestoresInitial ==
  (call.op = "reset" /\ call.flag) => currentValue = initialValue.made

(***************************************************************************)
(* Properties of reset().                                                  *)
(***************************************************************************)
\* C26: after reset(), a later set() invokes no observer subscribed before
\* the reset and a later select() invokes no selection callback registered
\* before it (the identities handed out before the reset are those below
\* lastReset); reset() itself invokes no observer, and reset(false) leaves
\* the value get() returns as it was (checked under SpecReset).
C26_ResetDropsObservers ==
  [][/\ call'.op = "set" =>
          \A i \in 1..Len(log') : log'[i].id >= lastReset'.id
     /\ call'.op = "select" =>
          \A i \in 1..Len(selLog') : selLog'[i] >= lastReset'.cb
     /\ call'.op = "reset" =>
          /\ log' = <<>> /\ selLog' = <<>>
          /\ ~call'.flag => currentValue' = currentValue]_vars

\* C26: a select() of the key a selection callback was registered under
\* has run after a reset() that dropped the callback and two observers, the
\* one of bindChildren among them
C26_Witness ==
  /\ call.op = "select" /\ call.key = 1
  /\ lastReset.id = 2 /\ lastReset.cb = 1
  /\ bindContexts > 0
  /\ selLog = <<>>

(***************************************************************************)
(* Properties of the binders, checked under SpecArgs and SpecAttr.         *)
(***************************************************************************)
\* the registries and the bindings of the container are as they were
NothingRegistered ==
  /\ observers' = observers
  /\ selectObservers' = selectObservers
  /\ bindContexts' = bindContexts
  /\ boundAttrs' = boundAttrs
  /\ attached' = attached
  /\ elCtx' = elCtx

\* C28: bindAs, bindSelect and bindChildren called with a render argument
\* that is not a function (and is given: a string, a node) and without an
\* update function, and bindAttr, bindSelectAttr and bindStyle called with
\* an argument that is not a function, fail at the call site and register
\* no observer and no bind context.
C28_BinderNeedsFunction ==
  [][/\ (/\ call'.op \in {"bindAs", "bindSelect"}
         /\ call'.args[1] = "value" /\ call'.args[2] # "function") =>
           call'.result = "MissingUpdateFunction" /\ NothingRegistered
     /\ (/\ call'.op = "bindChildren"
         /\ call'.args[2] = "value" /\ call'.args[3] # "function") =>
           /\ call'.result \in {"MissingUpdateFunction", "MissingParent"}
           /\ NothingRegistered
     /\ (/\ call'.op \in {"bindAttr", "bindSelectAttr", "bindStyle"}
         /\ call'.args[1] = "value") =>
           call'.result = "MissingUpdateFunction" /\ NothingRegistered]_vars

\* C28: a bindChildren with an element parent and a render argument that is
\* no function has failed on a container of a collection of one item
C28_Witness ==
  /\ call.op = "bindChildren" /\ call.args = <<"element", "value", "absent">>
  /\ call.result = "MissingUpdateFunction"
  /\ Len(currentValue.items) = 1
  /\ bindContexts = 0 /\ observers = <<>>

\* C29: bindChildren called without a parent node (the parent is undefined)
\* fails with MissingParent at the call site, before an observer is
\* subscribed or a bind context attached.
C29_UndefinedParentRejected ==
  [][(call'.op = "bindChildren" /\ call'.args[1] = "undefined") =>
        /\ call'.result = "MissingParent"
        /\ observers' = observers
        /\ bindContexts' = bindContexts]_vars

\* C30: creating a bound attribute or style registers no observer; each
\* attach to a unit and name registers exactly one observer on the
\* container; every set() after it applies the current result of the
\* function to that unit and name exactly once for each attachment, and
\* adds no observer (checked under SpecAttr).
C30_BoundAttrApplied ==
  [][/\ call'.op \in {"bindAttr", "bindStyle"} =>
          observers' = observers /\ attached' = attached
     /\ call'.op = "attach" =>
          /\ observers' = Append(observers, [id |-> call'.key, kind |-> "bound"])
          /\ DOMAIN attached' = DOMAIN attached \cup {call'.key}
          /\ call'.key \notin DOMAIN attached
          /\ attached'[call'.key].val = currentValue
     /\ call'.op = "set" =>
          /\ observers' = observers
          /\ DOMAIN attached' = DOMAIN attached
          /\ \A id \in DOMAIN attached :
                /\ attached'[id].applied = 1
                /\ attached'[id].val = currentValue'
                /\ attached'[id].unit = attached[id].unit
                /\ attached'[id].name = attached[id].name]_vars

\* C30: a set() of another value has returned after a bound attribute was
\* attached twice
C30_Witness ==
  /\ call.op = "set" /\ ~call.same
  /\ Cardinality(DOMAIN attached) = 2
  /\ \A id \in DOMAIN attached : attached[id].val = currentValue

(***************************************************************************)
(* Properties of bindChildren and of the keys, checked under SpecArgs and  *)
(* under Spec.                                                             *)
(***************************************************************************)
\* C34: bindChildren with an element parent and a render function, on a
\* container whose value is not an array, does not fail: it returns
\* normally and has subscribed the observer that refreshes the unit on
\* later set() calls, as bindAs does.
C34_NonArrayLikeBindAs ==
  (/\ call.op = "bindChildren" /\ ~currentValue.arr
   /\ call.args[1] = "element" /\ ~NoFunction(call.args[2], call.args[3])) =>
     call.result = "none" /\ observers # <<>>

\* keyFn(item) for the keyFn of the model, item => item.id: the id of an
\* object, undefined of a primitive
ItemId(item) == IF item.obj THEN item.v ELSE Undef

\* C35: in a container created with a keyFn, after bindChildren and after
\* every set() that returns normally the key tag of the unit of every item,
\* primitive or object, is keyFn(item).
C35_KeyFnForEveryItem ==
  (call.op \in {"set", "bindChildren"} /\ call.result = "none" /\ mapKey = "fn") =>
     KeysOfDom(children) = [i \in 1..Len(currentValue.items) |->
                              ItemId(currentValue.items[i])]

\* C36: a bindChildren that fails on a collection with two items of one key
\* leaves the container as it was: the same value, no observer added and no
\* bind context attached.
C36_FailedBindLeavesNothing ==
  [][(call'.op = "bindChildren" /\ call'.result = "DuplicateKey") =>
       /\ currentValue' = currentValue
       /\ observers' = observers
       /\ bindContexts' = bindContexts]_vars

\* the nodes of two child sequences
UnitsOf(a, b) == {a[i] : i \in 1..Len(a)} \cup {b[i] : i \in 1..Len(b)}
\* the child sequences one structural operation makes of d: an append, an
\* insertion before a child, a replacement of a child, a removal
OneOp(d, U) ==
  LET in == {d[i] : i \in 1..Len(d)}
  IN {append(d, u) : u \in U}
       \cup {insertBefore(d, q[1], q[2]) : q \in {x \in U \X in : x[1] # x[2]}}
       \cup {replaceWith(d, q[2], q[1]) : q \in {x \in U \X in : x[1] # x[2]}}
       \cup {remove(d, u) : u \in in}
RECURSIVE Within(_, _, _, _)
\* some sequence of at most n structural operations turns one of S into to
Within(S, to, U, n) ==
  IF to \in S THEN TRUE
  ELSE IF n = 0 THEN FALSE
  ELSE Within(S \cup UNION {OneOp(d, U) : d \in S}, to, U, n - 1)

\* C37: a reconciliation issues the minimum number of structural
\* operations: for every set(c) that returns normally on a bound
\* collection, no sequence of fewer appends, insertions, replacements and
\* removals turns the children before it into the children after it.
C37_MinimumOperations ==
  Bound =>
    \A c \in Collections : \A M \in {AfterSet(c)} :
      (M.err = "none" /\ M.ops > 0) =>
         ~Within({children}, M.dom, UnitsOf(children, M.dom), M.ops - 1)

\* C38: every set() on a container bindChildren was called on ends, by
\* returning or with DuplicateKey, after at most one nested set(): each
\* observer is invoked at most twice, whatever value the container held.
C38_SetTerminates ==
  [][call'.op = "set" =>
       /\ call'.result \in {"none", "DuplicateKey"}
       /\ \A o \in {log'[i].id : i \in 1..Len(log')} :
             Cardinality({i \in 1..Len(log') : log'[i].id = o}) <= 2]_vars

(***************************************************************************)
(* The observers of a bound collection, checked under SpecDup.             *)
(***************************************************************************)
\* the invocations of observer id in the latest call
EntriesOf(id) == {j \in 1..Len(log) : log[j].id = id}

\* C39: after a set() has failed with DuplicateKey, the latest invocation
\* of every observer of the container, subscribed before or after the
\* bindChildren observer, had the value the container now holds as its
\* newValue.
C39_ObserversSeeRestored ==
  (call.op = "set" /\ call.result = "DuplicateKey") =>
     \A i \in 1..Len(observers) :
        /\ EntriesOf(observers[i].id) # {}
        /\ \A j \in EntriesOf(observers[i].id) :
              (\A k \in EntriesOf(observers[i].id) : k <= j) =>
                 log[j].new = currentValue

\* C39: a set() has failed with DuplicateKey on a collection that is not
\* empty, with an observer subscribed before the bindChildren observer and
\* one subscribed after it
C39_Witness ==
  /\ call.op = "set" /\ call.result = "DuplicateKey"
  /\ Len(currentValue.items) > 0
  /\ Len(observers) = 3
  /\ observers[2].kind = "children"

(***************************************************************************)
(* The containers of the items, checked under SpecOwn, SpecKeep and        *)
(* SpecSwap.                                                               *)
(***************************************************************************)
\* C31: a callback bound with bindSelect on an item is invoked by no set()
\* on the collection and by no set() on an item, and by a select() only
\* when the key of the item is the key selected before the call or the key
\* the call selects.
C31_SelectScopedToItemKey ==
  [][/\ call'.op \in {"set", "itemSet"} => selLog' = <<>>
     /\ call'.op = "select" =>
          \A j \in 1..Len(selLog') :
             (selLog'[j] \in DOMAIN owners /\ owners[selLog'[j]] # 0) =>
                keyMapper(mapKey, currentValue.items[owners[selLog'[j]]])
                  \in {selected, call'.key}]_vars

\* C32: a set() on the container of an item invokes no observer of the
\* container of the collection (so no reconciliation runs), and leaves the
\* collection with the same containers at the same places, the other items
\* as they were, the children of the parent and the live-units map
\* unchanged.
C32_ItemSetLeavesParent ==
  [][call'.op = "itemSet" =>
       /\ call'.result = "none"
       /\ log' = <<>>
       /\ observers' = observers
       /\ children' = children
       /\ boundElementByKey' = boundElementByKey
       /\ Len(currentValue'.items) = Len(currentValue.items)
       /\ \A j \in 1..Len(currentValue.items) :
             j # call'.key => currentValue'.items[j] = currentValue.items[j]]_vars

\* C32: a set() on the second item of a bound collection of two items has
\* given it another value, with an observer subscribed to the container of
\* the collection besides the bindChildren observer
C32_Witness ==
  /\ call.op = "itemSet" /\ call.key = 2
  /\ Bound /\ Len(children) = 2 /\ Len(observers) = 2
  /\ keyMapper(mapKey, currentValue.items[2]) # children[2].key

\* C33: where bindChildren was given an update function, every set() on
\* the container of an item that changes the item's value executes it.
C33_UpdateRunsOnItemChange ==
  [][(/\ call'.op = "itemSet" /\ Bound /\ bindContext.update = "function"
      /\ currentValue' # currentValue) =>
        call'.updated # <<>>]_vars

\* C40: after the bindAs in the render function of a list and after every
\* set() on the item that returns, the live-units map of the list holds the
\* units that are children of the parent: every key maps to the child that
\* carries it as its key tag, and every child is the unit of its key tag.
C40_LiveUnitsAreChildren ==
  (/\ call.op \in {"bindAs", "set"} /\ call.result = "none"
   /\ boundElementByKey # EmptyMap) =>
     /\ \A k \in DOMAIN boundElementByKey :
           /\ boundElementByKey[k].key = k
           /\ IndexOf(children, boundElementByKey[k]) > 0
     /\ \A i \in 1..Len(children) :
           /\ children[i].key \in DOMAIN boundElementByKey
           /\ SameNode(boundElementByKey[children[i].key], children[i])

====
